---- MODULE Spec2Model ----
(***************************************************************************)
(* ExchangeManager (arbitrage_engine/core/exchange_manager.py).            *)
(*                                                                         *)
(* The manager builds a registry of exchange connectors from its           *)
(* configuration and then serves market-data requests.  Every request      *)
(* method is one sequential loop over self.exchanges inside a single       *)
(* try/except that logs and re-raises.  The connectors (ccxt) are          *)
(* external: a call returns a payload, raises, or never responds.          *)
(*                                                                         *)
(* Python values are represented as follows:                               *)
(*   dict            a sequence of [key, value] entries in insertion order *)
(*   None / a number the empty set / a one-element set                     *)
(*   o[k] of a list  o[k+1] of a TLA+ sequence                             *)
(***************************************************************************)
EXTENDS Integers, Sequences, FiniteSets

VARIABLES
    config,     \* self.config: [exchanges: list of names, api_keys: key names present]
    loadable,   \* environment: the exchanges whose load_markets() succeeds
    exchanges,  \* self.exchanges: dict name -> connector
    initIdx,    \* position of _initialize_exchanges in config['exchanges']
    pc,         \* "init", "idle", "awaiting", "returned", "raised"
    req,        \* the request being served
    idx,        \* position of the request's loop in self.exchanges
    acc,        \* the dictionary the request is building
    calls,      \* the connector calls the request has made, with their outcomes
    result,     \* the dictionary handed to the caller (pc = "returned")
    error       \* the exception handed to the caller (pc = "raised")

vars == <<config, loadable, exchanges, initIdx, pc, req, idx, acc, calls, result, error>>

----------------------------------------------------------------------------
(* Bounds of the model *)

MaxConfig == 3

MaxCandles == 2

----------------------------------------------------------------------------
(* Values *)

None == {}

Some(x) == {x}

ValueOf(o) == CHOOSE x \in o : TRUE

Keys(d) == [i \in 1..Len(d) |-> d[i].key]

IsDistinct(s) == \A i, j \in 1..Len(s) : i # j => s[i] # s[j]

SeqsUpTo(S, n) == UNION {[1..k -> S] : k \in 0..n}

\* d[k] = v of a Python dict: rebinding keeps the key's position, a new key
\* is appended.
Put(d, k, v) ==
    IF \E i \in 1..Len(d) : d[i].key = k
    THEN [i \in 1..Len(d) |-> IF d[i].key = k THEN [key |-> k, value |-> v] ELSE d[i]]
    ELSE Append(d, [key |-> k, value |-> v])

----------------------------------------------------------------------------
(* Configuration and startup *)

ExchangeNames == {"binance", "kucoin", "kraken"}

Supported == {"binance", "kucoin"}

AllKeys == {"binance_api_key", "binance_secret",
            "kucoin_api_key", "kucoin_secret", "kucoin_password"}

RequiredKeys(name) ==
    IF name = "binance" THEN {"binance_api_key", "binance_secret"}
    ELSE IF name = "kucoin" THEN {"kucoin_api_key", "kucoin_secret", "kucoin_password"}
    ELSE {}

\* What one pass of the loop body does with config['exchanges'][i]:
\* "unsupported" (else branch, continue), "missing_key" (KeyError caught),
\* "load_failed" (load_markets raised, caught) or "registered".
InitOutcome(name) ==
    IF name \notin Supported THEN "unsupported"
    ELSE IF ~(RequiredKeys(name) \subseteq config.api_keys) THEN "missing_key"
    ELSE IF name \notin loadable THEN "load_failed"
    ELSE "registered"

\* Mutant: a failure of one exchange ends the loop (break instead of continue).
InitStepBreaks ==
    /\ pc = "init"
    /\ LET name == config.exchanges[initIdx]
       IN  /\ exchanges' = IF InitOutcome(name) = "registered"
                           THEN Put(exchanges, name, initIdx)
                           ELSE exchanges
           /\ pc' = IF initIdx = Len(config.exchanges) \/ InitOutcome(name) # "registered"
                    THEN "idle" ELSE "init"
    /\ initIdx' = initIdx + 1
    /\ UNCHANGED <<config, loadable, req, idx, acc, calls, result, error>>

\* A pass of the loop of _initialize_exchanges over config['exchanges'][initIdx]:
\* a failure of one exchange is logged and the loop goes on with the next one.
InitStep ==
    /\ pc = "init"
    /\ LET name == config.exchanges[initIdx]
       IN  exchanges' = IF InitOutcome(name) = "registered"
                        THEN Put(exchanges, name, initIdx)
                        ELSE exchanges
    /\ initIdx' = initIdx + 1
    /\ pc' = IF initIdx = Len(config.exchanges) THEN "idle" ELSE "init"
    /\ UNCHANGED <<config, loadable, req, idx, acc, calls, result, error>>

----------------------------------------------------------------------------
(* Requests *)

Symbols == {"BTC/USDT", "ETH/USDT", "INVALID"}

Timeframes == {"1m", "1h", "1d"}

Lookbacks == {1, 24}

Clock == {1700000000, 1700003600}

\* exchange.markets after load_markets()
MarketsOf(name) ==
    IF name = "binance" THEN {"BTC/USDT", "ETH/USDT"}
    ELSE IF name = "kucoin" THEN {"BTC/USDT"}
    ELSE {}

TickerMethods == {"get_current_price", "get_last_traded_price"}

OhlcvMethods == {"get_price_data", "get_volume_data", "get_historical_prices"}

Methods == TickerMethods \cup OhlcvMethods \cup {"get_market_depth"}

NoRequest == [method |-> "", symbol |-> "", timeframe |-> "", lookback |-> 0, now |-> 0]

NoError == [exchange |-> "", kind |-> ""]

\* The arguments a caller can pass; methods without timeframe or lookback
\* carry the blank fields of NoRequest.
Requests ==
    {[NoRequest EXCEPT !.method = m, !.symbol = s] :
        m \in TickerMethods \cup {"get_market_depth", "get_volume_data"}, s \in Symbols}
    \cup {[NoRequest EXCEPT !.method = "get_price_data", !.symbol = s, !.timeframe = tf] :
        s \in Symbols, tf \in Timeframes}
    \cup {[method |-> "get_historical_prices", symbol |-> s, timeframe |-> tf,
           lookback |-> lb, now |-> t] :
        s \in Symbols, tf \in Timeframes, lb \in Lookbacks, t \in Clock}

\* start_time = end_time - (lookback * 60 * 60)
StartTime(end_time, lookback) == end_time - (lookback * 60 * 60)

ConnectorFn(method) ==
    IF method \in OhlcvMethods THEN "fetch_ohlcv"
    ELSE IF method \in TickerMethods THEN "fetch_ticker"
    ELSE "fetch_order_book"

\* The connector call a method makes on one exchange.
CallFor(r, name) ==
    [exchange  |-> name,
     fn        |-> ConnectorFn(r.method),
     symbol    |-> r.symbol,
     timeframe |-> IF r.method = "get_volume_data" THEN "1h" ELSE r.timeframe,
     since     |-> IF r.method = "get_historical_prices"
                   THEN Some(StartTime(r.now, r.lookback))
                   ELSE None,
     outcome   |-> "pending",
     response  |-> None]

\* What a connector can answer: a ccxt candle is
\* [timestamp, open, high, low, close, volume].
Candle(i) == <<1700000000 + (i - 1) * 3600, 10 * i, 10 * i + 2, 10 * i - 1, 10 * i + 1, i>>

OhlcvSeries == {[i \in 1..n |-> Candle(i)] : n \in 0..MaxCandles}

Tickers == {[bid |-> b, last |-> l] : b \in {None, Some(100)}, l \in {None, Some(101)}}

OrderBooks == {[bids |-> <<>>, asks |-> <<>>],
               [bids |-> << <<100, 1>> >>, asks |-> << <<101, 2>> >>]}

Payloads(fn) ==
    IF fn = "fetch_ohlcv" THEN OhlcvSeries
    ELSE IF fn = "fetch_ticker" THEN Tickers
    ELSE OrderBooks

\* {timestamp: {...} for timestamp, o in enumerate(ohlcv)}
PriceDict(ohlcv) ==
    [i \in 1..Len(ohlcv) |->
        [key   |-> i - 1,
         value |-> [open  |-> ohlcv[i][1], high   |-> ohlcv[i][2], low |-> ohlcv[i][3],
                    close |-> ohlcv[i][4], volume |-> ohlcv[i][5]]]]

\* {timestamp: o[4] for timestamp, o in enumerate(ohlcv)}
VolumeDict(ohlcv) ==
    [i \in 1..Len(ohlcv) |-> [key |-> i - 1, value |-> ohlcv[i][5]]]

\* float(price): TypeError on None
FloatRaises(p) == p = None

Float(p) == ValueOf(p)

\* Whether turning the connector's answer into the entry raises.
ConversionRaises(method, payload) ==
    \/ method = "get_current_price" /\ FloatRaises(payload.bid)
    \/ method = "get_last_traded_price" /\ FloatRaises(payload.last)

\* The value a method stores under the exchange's name.
Convert(method, payload) ==
    IF method = "get_current_price" THEN Float(payload.bid)
    ELSE IF method = "get_last_traded_price" THEN Float(payload.last)
    ELSE IF method = "get_volume_data" THEN VolumeDict(payload)
    ELSE IF method = "get_market_depth" THEN [bids |-> payload.bids, asks |-> payload.asks]
    ELSE PriceDict(payload)

Awaiting == pc = "awaiting" /\ calls[Len(calls)].outcome = "pending"

\* The log of calls with the outcome of the call in flight filled in.
Answered(outcome, response) ==
    [calls EXCEPT ![Len(calls)].outcome = outcome, ![Len(calls)].response = response]

\* Mutant: the symbol is validated against the registered exchanges' markets
\* before the loop.
StartRequestValidates ==
    /\ pc \in {"idle", "returned", "raised"}
    /\ \E r \in Requests :
        /\ req' = r
        /\ IF \A i \in 1..Len(exchanges) : r.symbol \notin MarketsOf(exchanges[i].key)
           THEN /\ pc' = "raised"
                /\ idx' = 0
                /\ calls' = <<>>
                /\ error' = [exchange |-> "", kind |-> "invalid_request"]
           ELSE /\ pc' = "awaiting"
                /\ idx' = 1
                /\ calls' = <<CallFor(r, exchanges[1].key)>>
                /\ error' = NoError
    /\ acc' = <<>>
    /\ result' = <<>>
    /\ UNCHANGED <<config, loadable, exchanges, initIdx>>

\* Mutant: an empty registry is refused.
StartRequestRefusesEmpty ==
    /\ pc \in {"idle", "returned", "raised"}
    /\ \E r \in Requests :
        /\ req' = r
        /\ IF Len(exchanges) = 0
           THEN /\ pc' = "raised"
                /\ idx' = 0
                /\ calls' = <<>>
                /\ error' = [exchange |-> "", kind |-> "structural"]
           ELSE /\ pc' = "awaiting"
                /\ idx' = 1
                /\ calls' = <<CallFor(r, exchanges[1].key)>>
                /\ error' = NoError
    /\ acc' = <<>>
    /\ result' = <<>>
    /\ UNCHANGED <<config, loadable, exchanges, initIdx>>

\* A caller invokes a request method: the method runs up to its first
\* connector call, or returns the empty dictionary when the loop has nothing
\* to iterate over.
StartRequest ==
    /\ pc \in {"idle", "returned", "raised"}
    /\ \E r \in Requests :
        /\ req' = r
        /\ IF Len(exchanges) = 0
           THEN /\ pc' = "returned"
                /\ idx' = 0
                /\ calls' = <<>>
           ELSE /\ pc' = "awaiting"
                /\ idx' = 1
                /\ calls' = <<CallFor(r, exchanges[1].key)>>
    /\ acc' = <<>>
    /\ result' = <<>>
    /\ error' = NoError
    /\ UNCHANGED <<config, loadable, exchanges, initIdx>>

\* Mutant: the return statement sits inside the loop.
ConnectorReturnsInsideLoop ==
    /\ Awaiting
    /\ \E payload \in Payloads(calls[Len(calls)].fn) :
        LET name == exchanges[idx].key
            stored == Put(acc, name, Convert(req.method, payload))
        IN  IF ConversionRaises(req.method, payload)
            THEN /\ pc' = "raised"
                 /\ error' = [exchange |-> name, kind |-> "conversion"]
                 /\ calls' = Answered("returned", Some(payload))
                 /\ UNCHANGED <<idx, acc, result>>
            ELSE /\ pc' = "returned"
                 /\ result' = stored
                 /\ acc' = stored
                 /\ calls' = Answered("returned", Some(payload))
                 /\ UNCHANGED <<idx, error>>
    /\ UNCHANGED <<config, loadable, exchanges, initIdx, req>>

\* The connector call returns: the entry is stored and the loop goes on to
\* the next exchange's call, or returns the dictionary after the last one;
\* an exception of the conversion leaves through the except clause.
ConnectorReturns ==
    /\ Awaiting
    /\ \E payload \in Payloads(calls[Len(calls)].fn) :
        LET name == exchanges[idx].key
            stored == Put(acc, name, Convert(req.method, payload))
        IN  IF ConversionRaises(req.method, payload)
            THEN /\ pc' = "raised"
                 /\ error' = [exchange |-> name, kind |-> "conversion"]
                 /\ calls' = Answered("returned", Some(payload))
                 /\ UNCHANGED <<idx, acc, result>>
            ELSE IF idx = Len(exchanges)
            THEN /\ pc' = "returned"
                 /\ result' = stored
                 /\ acc' = stored
                 /\ calls' = Answered("returned", Some(payload))
                 /\ UNCHANGED <<idx, error>>
            ELSE /\ acc' = stored
                 /\ idx' = idx + 1
                 /\ calls' = Append(Answered("returned", Some(payload)),
                                    CallFor(req, exchanges[idx + 1].key))
                 /\ UNCHANGED <<pc, result, error>>
    /\ UNCHANGED <<config, loadable, exchanges, initIdx, req>>

\* Mutant: the except clause returns what was collected so far.
ConnectorRaisesReturnsPartial ==
    /\ Awaiting
    /\ pc' = "returned"
    /\ result' = acc
    /\ calls' = Answered("raised", None)
    /\ UNCHANGED <<config, loadable, exchanges, initIdx, req, idx, acc, error>>

\* Mutant: the failure is caught inside the loop, which goes on.
ConnectorRaisesAndContinues ==
    /\ Awaiting
    /\ IF idx = Len(exchanges)
       THEN /\ pc' = "returned"
            /\ result' = acc
            /\ calls' = Answered("raised", None)
            /\ UNCHANGED idx
       ELSE /\ idx' = idx + 1
            /\ calls' = Append(Answered("raised", None), CallFor(req, exchanges[idx + 1].key))
            /\ UNCHANGED <<pc, result>>
    /\ UNCHANGED <<config, loadable, exchanges, initIdx, req, acc, error>>

\* Mutant: the except clause also drops the failing exchange from the registry.
ConnectorRaisesDropsExchange ==
    /\ Awaiting
    /\ pc' = "raised"
    /\ error' = [exchange |-> exchanges[idx].key, kind |-> "connector"]
    /\ calls' = Answered("raised", None)
    /\ exchanges' = SelectSeq(exchanges, LAMBDA e : e.key # exchanges[idx].key)
    /\ UNCHANGED <<config, loadable, initIdx, req, idx, acc, result>>

\* The connector call raises: the except clause logs and re-raises
\* (get_price_data logs ccxt errors only; any exception leaves the method).
ConnectorRaises ==
    /\ Awaiting
    /\ pc' = "raised"
    /\ error' = [exchange |-> exchanges[idx].key, kind |-> "connector"]
    /\ calls' = Answered("raised", None)
    /\ UNCHANGED <<config, loadable, exchanges, initIdx, req, idx, acc, result>>

\* Mutant: the wait is bounded and a timeout is raised.
ConnectorTimesOut ==
    /\ Awaiting
    /\ pc' = "raised"
    /\ error' = [exchange |-> exchanges[idx].key, kind |-> "timeout"]
    /\ calls' = Answered("no_response", None)
    /\ UNCHANGED <<config, loadable, exchanges, initIdx, req, idx, acc, result>>

\* The connector never answers: the method has no timeout of its own and
\* stays in the call.
ConnectorHangs ==
    /\ Awaiting
    /\ calls' = Answered("no_response", None)
    /\ UNCHANGED <<config, loadable, exchanges, initIdx, pc, req, idx, acc, result, error>>

\* get_exchange_info reads attributes of the connectors and calls none.
ExchangeInfo ==
    [i \in 1..Len(exchanges) |->
        [key   |-> exchanges[i].key,
         value |-> [markets |-> Cardinality(MarketsOf(exchanges[i].key))]]]

GetExchangeInfo ==
    /\ pc \in {"idle", "returned", "raised"}
    /\ req' = [NoRequest EXCEPT !.method = "get_exchange_info"]
    /\ pc' = "returned"
    /\ idx' = Len(exchanges)
    /\ calls' = <<>>
    /\ acc' = ExchangeInfo
    /\ result' = ExchangeInfo
    /\ error' = NoError
    /\ UNCHANGED <<config, loadable, exchanges, initIdx>>

----------------------------------------------------------------------------
(* Specifications *)

Configs(keySets) ==
    {[exchanges |-> e, api_keys |-> k] :
        e \in SeqsUpTo(ExchangeNames, MaxConfig), k \in keySets}

\* ExchangeManager(config) at the entry of _initialize_exchanges.
Constructed(keySets) ==
    /\ config \in Configs(keySets)
    /\ loadable \in SUBSET Supported
    /\ exchanges = <<>>
    /\ initIdx = 1
    /\ pc = IF Len(config.exchanges) = 0 THEN "idle" ELSE "init"
    /\ req = NoRequest
    /\ idx = 0
    /\ acc = <<>>
    /\ calls = <<>>
    /\ result = <<>>
    /\ error = NoError

Init == Constructed({AllKeys})

Next ==
    \/ InitStep
    \/ StartRequest
    \/ ConnectorReturns
    \/ ConnectorRaises
    \/ ConnectorHangs
    \/ GetExchangeInfo

Spec == Init /\ [][Next]_vars

\* The manager is synchronous: whatever step it can take, it takes.
FairSpec == Spec /\ WF_vars(Next)

\* Startup alone, over every set of credentials.
InitAnyKeys == Constructed(SUBSET AllKeys)

StartupSpec == InitAnyKeys /\ [][InitStep]_vars

----------------------------------------------------------------------------
(* Properties *)

Finished == pc \in {"returned", "raised"}

MarketData == req.method \in Methods

LastCall == calls[Len(calls)]

NoResponse == Len(calls) > 0 /\ LastCall.outcome = "no_response"

UnknownEverywhere ==
    \A i \in 1..Len(exchanges) : req.symbol \notin MarketsOf(exchanges[i].key)

\* The entry a method is to store for the answer of call i.
EntryFor(i) ==
    [key |-> calls[i].exchange, value |-> Convert(req.method, ValueOf(calls[i].response))]

\* C1 as stated: whatever the connectors do (each call succeeds or raises), a
\* finished market-data request hands the caller a result with exactly one
\* entry (success or failure record) per registered exchange.
C1_EveryOutcomeYieldsFullSnapshot ==
    (Finished /\ MarketData /\ error.kind # "conversion") =>
        /\ pc = "returned"
        /\ Keys(result) = Keys(exchanges)

\* C1 amended: a market-data request that returns hands the caller exactly
\* one entry per registered exchange, in registry order, each the converted
\* answer of that exchange's connector; there are no failure records, and a
\* request in which a call fails hands the caller no result.
C1_ReturnedSnapshotIsFull ==
    /\ (pc = "returned" /\ MarketData) =>
        /\ Keys(result) = Keys(exchanges)
        /\ Len(calls) = Len(exchanges)
        /\ \A i \in 1..Len(calls) :
            /\ calls[i].outcome = "returned"
            /\ result[i] = EntryFor(i)
    /\ pc # "returned" => result = <<>>

\* C1 witness: a request over two registered exchanges has returned.
C1_Witness ==
    /\ pc = "returned"
    /\ MarketData
    /\ Len(exchanges) = 2
    /\ Len(result) = 2

C3_NoResponseStillReturns == NoResponse ~> (pc = "returned")

\* C3 amended: when a connector never responds, the request never returns:
\* it stays in that call, no exchange later in the registry is queried and
\* neither a result nor an error is handed to the caller.
C3_NoResponseBlocks ==
    /\ [](NoResponse =>
            /\ pc = "awaiting"
            /\ Len(calls) = idx
            /\ result = <<>>
            /\ error = NoError)
    /\ [][NoResponse => NoResponse' /\ pc' = "awaiting"]_vars

\* C3 witness: the first of two registered exchanges does not respond.
C3_Witness ==
    /\ NoResponse
    /\ Len(exchanges) = 2
    /\ Len(calls) = 1
    /\ pc = "awaiting"

Misconfigured == {i \in 1..Len(config.exchanges) : InitOutcome(config.exchanges[i]) # "registered"}

\* C4: after startup over N distinct exchanges of which exactly one is
\* misconfigured, the registry holds exactly the other N-1, in their order
\* of configuration, each bound to the connector built for it.
C4_OneMisconfiguredIsSkipped ==
    (pc # "init" /\ IsDistinct(config.exchanges) /\ Cardinality(Misconfigured) = 1) =>
        LET bad == CHOOSE i \in Misconfigured : TRUE
            good == SelectSeq([i \in 1..Len(config.exchanges) |-> i], LAMBDA i : i # bad)
        IN  /\ Len(exchanges) = Len(config.exchanges) - 1
            /\ exchanges = [j \in 1..Len(good) |->
                               [key |-> config.exchanges[good[j]], value |-> good[j]]]

\* C4 witness: startup is over for three distinct exchanges of which the second is misconfigured.
C4_Witness ==
    /\ pc = "idle"
    /\ Len(config.exchanges) = 3
    /\ IsDistinct(config.exchanges)
    /\ Misconfigured = {2}
    /\ Keys(exchanges) = <<config.exchanges[1], config.exchanges[3]>>

\* C5 as stated: a request whose symbol no registered exchange lists fails
\* with InvalidRequestError and invokes no connector.
C5_UnknownSymbolIsRefused ==
    (MarketData /\ Len(exchanges) > 0 /\ UnknownEverywhere) =>
        /\ calls = <<>>
        /\ pc = "raised"
        /\ error.kind = "invalid_request"

\* C5 amended: a symbol that no registered exchange lists is not validated:
\* the fetch call of the first registered exchange is invoked with it, and
\* the request fails only with the error of a connector call or of the
\* conversion of its answer.
C5_UnknownSymbolIsDispatched ==
    (MarketData /\ Len(exchanges) > 0 /\ UnknownEverywhere) =>
        /\ Len(calls) >= 1
        /\ calls[1].exchange = exchanges[1].key
        /\ calls[1].fn = ConnectorFn(req.method)
        /\ calls[1].symbol = req.symbol
        /\ error.kind \in {"", "connector", "conversion"}
        /\ pc = "raised" => LastCall.outcome \in {"raised", "returned"}

\* C5 witness: a request for a symbol no exchange lists is in its first fetch_ohlcv call.
C5_Witness ==
    /\ MarketData
    /\ req.symbol = "INVALID"
    /\ Len(exchanges) = 2
    /\ Len(calls) = 1
    /\ calls[1].fn = "fetch_ohlcv"

\* C6 as stated: with no exchange registered, a request raises to the caller
\* instead of returning a result.
C6_EmptyRegistryRaises ==
    (Len(exchanges) = 0 /\ Finished) => pc = "raised"

\* C6 amended: with no exchange registered, every request returns the empty
\* dictionary; nothing is raised and no connector is called.
C6_EmptyRegistryReturnsEmpty ==
    (Len(exchanges) = 0 /\ pc \notin {"init", "idle"}) =>
        /\ pc = "returned"
        /\ result = <<>>
        /\ calls = <<>>
        /\ error = NoError

\* C6 witness: every configured exchange failed startup and get_current_price has returned.
C6_Witness ==
    /\ Len(config.exchanges) > 0
    /\ Len(exchanges) = 0
    /\ pc = "returned"
    /\ req.method = "get_current_price"

\* C7: once startup is over, no step changes self.exchanges.
C7_RegistryIsFrozen == [][pc # "init" => exchanges' = exchanges]_vars

\* C7 witness: with two exchanges registered, a request has raised at the second.
C7_Witness ==
    /\ Len(exchanges) = 2
    /\ pc = "raised"
    /\ Len(calls) = 2

\* C8: every candle a connector returned is stored under its open time.
C8_KeyedByOpenTime ==
    \A i \in 1..Len(acc) :
        (req.method \in OhlcvMethods) =>
            LET ohlcv == ValueOf(calls[i].response)
            IN  \A j \in 1..Len(ohlcv) : acc[i].value[j].key = ohlcv[j][1]

TimeframeSeconds(tf) ==
    IF tf = "1m" THEN 60 ELSE IF tf = "1h" THEN 3600 ELSE 86400

\* C9: every call of get_historical_prices is passed
\* since = now - lookback * (duration of one period of the timeframe), the
\* same value for every exchange of the request.
C9_SinceIsLookbackPeriods ==
    \A i \in 1..Len(calls) :
        req.method = "get_historical_prices" =>
            /\ calls[i].since = Some(req.now - req.lookback * TimeframeSeconds(req.timeframe))
            /\ calls[i].since = calls[1].since

\* C10 as stated: a finished request either returned a dictionary (every
\* connector call succeeded) or re-raised a connector error.
C10_ReturnsOrConnectorError ==
    (Finished /\ MarketData) =>
        \/ pc = "returned"
        \/ pc = "raised" /\ error.kind = "connector"

\* C10 amended: exchanges are queried one at a time in registry order; a
\* finished request either returned a dictionary with an entry for every
\* registered exchange, or raised the first error (of a connector call, or
\* of float() on a ticker without the price) and returned nothing, with no
\* exchange after the failing one called.
C10_AllOrNothing ==
    /\ \A i \in 1..Len(calls) :
        /\ calls[i].exchange = exchanges[i].key
        /\ i < Len(calls) => calls[i].outcome = "returned"
    /\ (pc = "returned" /\ MarketData) =>
        /\ Keys(result) = Keys(exchanges)
        /\ Len(calls) = Len(exchanges)
    /\ pc = "raised" =>
        /\ result = <<>>
        /\ Len(calls) = idx
        /\ error.exchange = exchanges[idx].key
        /\ \/ error.kind = "connector" /\ LastCall.outcome = "raised"
           \/ /\ error.kind = "conversion"
              /\ LastCall.outcome = "returned"
              /\ ConversionRaises(req.method, ValueOf(LastCall.response))

\* C10 witness: after an entry for the first exchange, the conversion for the second has raised.
C10_Witness ==
    /\ pc = "raised"
    /\ Len(exchanges) = 2
    /\ Len(calls) = 2
    /\ Len(acc) = 1
    /\ error.kind = "conversion"

====
